---------------------------- MODULE Spec2Model ----------------------------
(***************************************************************************)
(* A model of pyfreesurfer's statistics utilities                          *)
(* (pyfreesurfer/utils/stattools.py) and of its environment loader         *)
(* (pyfreesurfer/configuration.py).                                        *)
(*                                                                         *)
(* Four specifications share the module, one per component:                *)
(*   SpecStats  aparcstats2table / asegstats2table                         *)
(*   SpecTex    textures2table                                             *)
(*   SpecPop    population_summary                                         *)
(*   SpecEnv    environment                                                *)
(* Each leaves the variables of the other components at their initial      *)
(* values.                                                                 *)
(***************************************************************************)
EXTENDS Integers, Sequences, FiniteSets, TLC

VARIABLES
    environ,   \* os.environ, a set of <<name, value>> pairs
    dirs,      \* the directories of the filesystem (paths as component tuples)
    files,     \* the regular files of the filesystem
    st,        \* the frame of the running Stats Table Generator call
    pre,       \* history: environ, dirs and files as they were when st was called
    calls,     \* history: the external tool invocations of the call, in order
    tx,        \* the frame of the running textures2table call
    io,        \* history: the filesystem accesses of the textures2table call
    statsdir,  \* the names of the files of fsdir/stats
    ps,        \* the frame of the running population_summary call
    child,     \* the environment of the shell that sourced sh_file
    ev         \* the frame of the running environment call

vars == <<environ, dirs, files, st, pre, calls, tx, io, statsdir, ps, child, ev>>

\* What each component leaves alone.
othersOfStats == <<tx, io, statsdir, ps, child, ev>>

othersOfTex == <<st, calls, statsdir, ps, child, ev>>

othersOfPop == <<environ, dirs, files, st, pre, calls, tx, io, child, ev>>

othersOfEnv == <<environ, dirs, files, st, pre, calls, tx, io, statsdir, ps>>

(***************************************************************************)
(* The bounds of the model.                                                *)
(***************************************************************************)
\* The most files fsdir/stats holds.
MaxFiles == 3

\* The most variables the sourced shell's environment holds.
MaxVars == 3

(***************************************************************************)
(* Generic helpers.                                                        *)
(***************************************************************************)
Last(s) == s[Len(s)]

\* The empty Python dict.
EmptyDict == [x \in {} |-> {}]

IsPrefix(p, s) == Len(p) <= Len(s) /\ SubSeq(s, 1, Len(p)) = p

\* The set of sequences that enumerate the finite set S without repetition.
Perms(S) ==
    {q \in [1..Cardinality(S) -> S] : \A i, j \in 1..Cardinality(S) : q[i] = q[j] => i = j}

(***************************************************************************)
(* Python name resolution in stattools.py.  The module binds the names of  *)
(* its import statements and of its four functions; every other name is    *)
(* looked up among the builtins, and a name found in neither raises        *)
(* NameError when the expression that mentions it is evaluated.            *)
(***************************************************************************)
StattoolsGlobals ==
    {"os", "csv", "glob", "numpy", "DEFAULT_FREESURFER_PATH", "FSWrapper",
     "mri_surf2surf", "population_summary", "aparcstats2table",
     "asegstats2table", "textures2table"}

Builtins == {"ValueError", "open", "float", "sorted"}

Bound(name) == name \in StattoolsGlobals \cup Builtins

NoError == [type |-> "none", detail |-> "none"]

\* raise cls(detail): the exception that reaches the caller.
Raise(cls, detail) ==
    IF Bound(cls) THEN [type |-> cls, detail |-> detail]
    ELSE [type |-> "NameError", detail |-> cls]

(***************************************************************************)
(* The filesystem and the process environment.                             *)
(***************************************************************************)
\* os.path.join(path, name) for a relative one-component name.
Join(path, name) == Append(path, name)

isdir(path) == path \in dirs

HasKey(env, key) == \E e \in env : e[1] = key

Get(env, key) == (CHOOSE e \in env : e[1] = key)[2]

SetItem(env, key, value) == {e \in env : e[1] # key} \cup {<<key, value>>}

\* glob.glob(os.path.join(fsdir, "*", "stats")): the matches, as a set; the
\* order in which glob lists them is the directory's, and is not specified.
GlobStatDirs(fsdir) ==
    {d \in dirs \cup files : /\ Len(d) = Len(fsdir) + 2
                             /\ IsPrefix(fsdir, d)
                             /\ Last(d) = "stats"}

\* item.lstrip(os.sep).split("/")[-2]
SubjectOf(item) == item[Len(item) - 1]

Subjects(statdirs) == [k \in 1..Len(statdirs) |-> SubjectOf(statdirs[k])]

(***************************************************************************)
(* Stats Table Generators.                                                 *)
(***************************************************************************)
Hemis == <<"lh", "rh">>

Measures ==
    <<"area", "volume", "thickness", "thicknessstd", "meancurv", "gauscurv",
      "foldind", "curvind">>

AparcCount == Len(Hemis) * Len(Measures)

\* The hemisphere and the measure of the k-th pass through the nested loops
\* "for hemi in [...]: for meas in [...]".
AparcPairMeasureMajor(k) ==
    [hemi |-> Hemis[((k - 1) % Len(Hemis)) + 1],
     meas |-> Measures[((k - 1) \div Len(Hemis)) + 1]]

AparcPair(k) ==
    [hemi |-> Hemis[((k - 1) \div Len(Measures)) + 1],
     meas |-> Measures[((k - 1) % Len(Measures)) + 1]]

AparcStatfile(fsoutdir, hemi, meas) ==
    Join(fsoutdir, "aparc_stats_" \o hemi \o "_" \o meas \o ".csv")

AsegStatfile(fsoutdir) == Join(fsoutdir, "aseg_stats_volume.csv")

IdleFrame ==
    [pc |-> "idle", kind |-> "none", fsdir |-> <<>>, outdir |-> <<>>,
     fscwd |-> {}, subjects |-> <<>>, statfiles |-> <<>>, i |-> 0,
     error |-> NoError, ret |-> <<>>]

IdleTexFrame ==
    [pc |-> "idle", regex |-> <<>>, fsdir |-> <<>>, outdir |-> {},
     keep_individual_textures |-> FALSE, save_mode |-> "none",
     textures |-> <<>>, k |-> 0, textures_map |-> {}, error |-> NoError,
     ret |-> <<>>]

IdlePopFrame ==
    [pc |-> "idle", sid |-> {}, stats |-> <<>>, k |-> 0,
     popstats |-> EmptyDict, error |-> NoError]

IdleEnvFrame ==
    [pc |-> "idle", lines |-> <<>>, k |-> 0, environment |-> {},
     error |-> NoError]

\* The paths a caller passes: two directories and a path that names none.
ArgPaths == {<<"fs">>, <<"out">>, <<"nodir">>}

SubjectNames == {"s1", "s2"}

\* "for path in (fsdir, outdir): if not os.path.isdir(path): raise ValueError"
ArgsAreDirsFsdirOnly(fsdir, outdir) == isdir(fsdir)

ArgsAreDirs(fsdir, outdir) == isdir(fsdir) /\ isdir(outdir)

\* "if fscwd is not None: os.environ["SUBJECTS_DIR"] = fscwd"
Restore(env, fscwd) ==
    IF fscwd # {} THEN SetItem(env, "SUBJECTS_DIR", CHOOSE v \in fscwd : TRUE)
    ELSE env

\* Lines 104-125 (and 175-196): the argument check, the subject discovery,
\* the SUBJECTS_DIR override and the creation of the output directory.
\* mkdirOk is whether os.mkdir succeeds when it is called.
Prologue(kind, fsdir, outdir, statdirs, mkdirOk) ==
    LET fsoutdir == Join(outdir, "stats")
        frame == [IdleFrame EXCEPT !.kind = kind, !.fsdir = fsdir,
                                   !.outdir = outdir]
    IN  /\ st.pc = "idle"
        /\ pre' = [environ |-> environ, dirs |-> dirs, files |-> files]
        /\ calls' = <<>>
        /\ IF ~ArgsAreDirs(fsdir, outdir)
           THEN /\ st' = [frame EXCEPT !.pc = "raised",
                                       !.error = Raise("ValueError", "directory")]
                /\ UNCHANGED <<environ, dirs, files>>
           ELSE /\ environ' = SetItem(environ, "SUBJECTS_DIR", fsdir)
                /\ UNCHANGED files
                /\ LET saved == [frame EXCEPT
                                   !.subjects = Subjects(statdirs),
                                   !.fscwd = IF HasKey(environ, "SUBJECTS_DIR")
                                             THEN {Get(environ, "SUBJECTS_DIR")}
                                             ELSE {}]
                   IN  IF isdir(fsoutdir)
                       THEN /\ st' = [saved EXCEPT !.pc = "loop"]
                            /\ UNCHANGED dirs
                       ELSE IF mkdirOk /\ fsoutdir \notin files
                       THEN /\ st' = [saved EXCEPT !.pc = "loop"]
                            /\ dirs' = dirs \cup {fsoutdir}
                       ELSE /\ st' = [saved EXCEPT !.pc = "raised",
                                                   !.error = [type |-> "OSError",
                                                              detail |-> "mkdir"]]
                            /\ UNCHANGED dirs

AparcCall ==
    /\ \E fsdir \in ArgPaths, outdir \in ArgPaths, mkdirOk \in BOOLEAN :
        \E statdirs \in Perms(GlobStatDirs(fsdir)) :
            Prologue("aparc", fsdir, outdir, statdirs, mkdirOk)
    /\ UNCHANGED othersOfStats

AsegCall ==
    /\ \E fsdir \in ArgPaths, outdir \in ArgPaths, mkdirOk \in BOOLEAN :
        \E statdirs \in Perms(GlobStatDirs(fsdir)) :
            Prologue("aseg", fsdir, outdir, statdirs, mkdirOk)
    /\ UNCHANGED othersOfStats

\* One run of the external tool through FSWrapper: it exits with exitcode and
\* has written its --tablefile or not (it always has when it exits with 0).
ToolRun(cmd, exitcode, wrote) ==
    /\ calls' = Append(calls, [cmd |-> cmd, exitcode |-> exitcode])
    /\ files' = IF exitcode = 0 \/ wrote THEN files \cup {cmd.tablefile} ELSE files

ExitCodes == {0, 1}

\* Lines 128-144: one pass through the loops.
AparcInvoke ==
    /\ st.pc = "loop"
    /\ st.kind = "aparc"
    /\ st.i < AparcCount
    /\ \E exitcode \in ExitCodes, wrote \in BOOLEAN :
        LET pair == AparcPair(st.i + 1)
            statfile == AparcStatfile(Join(st.outdir, "stats"), pair.hemi, pair.meas)
            cmd == [tool |-> "aparcstats2table", subjects |-> st.subjects,
                    hemi |-> pair.hemi, meas |-> pair.meas, tablefile |-> statfile]
            next == [st EXCEPT !.statfiles = Append(@, statfile), !.i = @ + 1]
        IN  /\ ToolRun(cmd, exitcode, wrote)
            /\ st' = IF exitcode # 0
                     THEN [next EXCEPT !.pc = "raised",
                                       !.error = Raise("FreeSurferRuntimeError",
                                                       cmd.tool)]
                     ELSE next
    /\ UNCHANGED <<environ, dirs, pre>>
    /\ UNCHANGED othersOfStats

\* Lines 146-150: the loops are over.
AparcReturn ==
    /\ st.pc = "loop"
    /\ st.kind = "aparc"
    /\ st.i = AparcCount
    /\ environ' = Restore(environ, st.fscwd)
    /\ st' = [st EXCEPT !.pc = "returned", !.ret = st.statfiles]
    /\ UNCHANGED <<dirs, files, pre, calls>>
    /\ UNCHANGED othersOfStats

\* Lines 198-214: the single invocation, then the restoration and the return.
AsegInvoke ==
    /\ st.pc = "loop"
    /\ st.kind = "aseg"
    /\ \E exitcode \in ExitCodes, wrote \in BOOLEAN :
        LET statfile == AsegStatfile(Join(st.outdir, "stats"))
            cmd == [tool |-> "asegstats2table", subjects |-> st.subjects,
                    hemi |-> "none", meas |-> "volume", tablefile |-> statfile]
            next == [st EXCEPT !.statfiles = Append(@, statfile), !.i = @ + 1]
        IN  /\ ToolRun(cmd, exitcode, wrote)
            /\ IF exitcode # 0
               THEN /\ st' = [next EXCEPT !.pc = "raised",
                                          !.error = Raise("FreeSurferRuntimeError",
                                                          cmd.tool)]
                    /\ UNCHANGED environ
               ELSE /\ st' = [next EXCEPT !.pc = "returned", !.ret = next.statfiles]
                    /\ environ' = Restore(environ, st.fscwd)
    /\ UNCHANGED <<dirs, pre>>
    /\ UNCHANGED othersOfStats


(***************************************************************************)
(* Texture Aggregator.                                                     *)
(***************************************************************************)
\* "if save_mode not in ["numpy", "csv", "all"]"
SaveModesWithXml == {"numpy", "csv", "all", "xml"}

SaveModes == {"numpy", "csv", "all"}

\* fnmatch of one path component, for the patterns "*" and a literal name.
ComponentMatches(pat, name) == pat = "*" \/ pat = name

\* glob.glob(os.path.join(fsdir, regex)), as a set.
Glob(fsdir, regex) ==
    {f \in files \cup dirs :
        /\ Len(f) = Len(fsdir) + Len(regex)
        /\ IsPrefix(fsdir, f)
        /\ \A j \in 1..Len(regex) : ComponentMatches(regex[j], f[Len(fsdir) + j])}

\* path.replace(sub, ""), component by component: every occurrence of sub is
\* removed, from the left.
RECURSIVE Replace(_, _)
Replace(path, sub) ==
    IF path = <<>> \/ sub = <<>> THEN path
    ELSE IF IsPrefix(sub, path)
         THEN Replace(SubSeq(path, Len(sub) + 1, Len(path)), sub)
         ELSE <<Head(path)>> \o Replace(Tail(path), sub)

\* sid.lstrip(os.sep).split(os.sep)[0]; the empty string for an empty path.
SidOf(texturefile, fsdir) ==
    LET rest == Replace(texturefile, fsdir)
    IN  IF rest = <<>> THEN "" ELSE Head(rest)

\* basename.split(".")[0], for the base names of TexPatterns.
HemiOf(basename) ==
    CASE basename = "lh.a" -> "lh"
      [] basename = "rh.a" -> "rh"
      [] OTHER -> basename

Resampled(surfacesdir, sid, basename) ==
    Join(surfacesdir, sid \o "_" \o basename \o ".mgz")

\* The resampled arrays nibabel.load may return: their shape and their data.
Arrays ==
    {[shape |-> <<2, 1, 1>>, data |-> <<1, 2>>],
     [shape |-> <<2, 2, 1>>, data |-> <<1, 2, 3, 4>>],
     [shape |-> <<2, 1>>, data |-> <<1, 2>>]}

TexPatterns == {<<"*", "surf", "lh.a">>, <<"*", "*", "lh.a">>, <<"s2", "surf", "lh.a">>}

TexFiles ==
    {<<"fs", "s1", "surf", "lh.a">>, <<"fs", "s1", "label", "lh.a">>,
     <<"fs", "s2", "surf", "lh.a">>}

Io(op, path) == [op |-> op, path |-> path]

\* Lines 267-270: the JSON side-file.  The result is the error raised, if any,
\* and the files and the accesses after the step.
SideFile(outdir, fs, log) ==
    IF outdir = {} THEN [error |-> NoError, files |-> fs, io |-> log]
    ELSE LET path == Join(CHOOSE d \in outdir : TRUE, "textrues.json")
         IN  IF (CHOOSE d \in outdir : TRUE) \notin dirs
             THEN [error |-> [type |-> "IOError", detail |-> "open"],
                   files |-> fs, io |-> Append(log, Io("open", path))]
             ELSE IF ~Bound("json")
             THEN [error |-> Raise("json", "dump"),
                   files |-> fs \cup {path}, io |-> Append(log, Io("open", path))]
             ELSE [error |-> NoError,
                   files |-> fs \cup {path}, io |-> Append(log, Io("write", path))]

\* Lines 260-278: the check of save_mode, the glob, the side-file and the
\* creation of the directory of the resampled textures.
TexCall ==
    /\ \E regex \in TexPatterns, outdir \in {{}, {<<"out">>}, {<<"nodir">>}},
       keep \in BOOLEAN, save_mode \in SaveModes \cup {"xml"}, makedirsOk \in BOOLEAN :
        \E textures \in Perms(Glob(<<"fs">>, regex)) :
            LET fsdir == <<"fs">>
                frame == [IdleTexFrame EXCEPT
                              !.regex = regex, !.fsdir = fsdir, !.outdir = outdir,
                              !.keep_individual_textures = keep,
                              !.save_mode = save_mode]
                basename == Last(regex)
                fsoutdir == Join(fsdir, "textures")
                surfacesdir == Join(fsoutdir, basename)
                side == SideFile(outdir, files, <<Io("glob", fsdir \o regex)>>)
            IN  /\ tx.pc = "idle"
                /\ pre' = [environ |-> environ, dirs |-> dirs, files |-> files]
                /\ IF save_mode \notin SaveModes
                   THEN /\ tx' = [frame EXCEPT !.pc = "raised",
                                       !.error = Raise("ValueError", "save_mode")]
                        /\ UNCHANGED <<dirs, files, io>>
                   ELSE IF side.error # NoError
                   THEN /\ tx' = [frame EXCEPT !.pc = "raised",
                                       !.textures = textures,
                                       !.error = side.error]
                        /\ files' = side.files
                        /\ io' = side.io
                        /\ UNCHANGED dirs
                   ELSE IF isdir(surfacesdir)
                   THEN /\ tx' = [frame EXCEPT !.pc = "loop", !.textures = textures]
                        /\ files' = side.files
                        /\ io' = Append(side.io, Io("isdir", surfacesdir))
                        /\ UNCHANGED dirs
                   ELSE IF makedirsOk
                   THEN /\ tx' = [frame EXCEPT !.pc = "loop", !.textures = textures]
                        /\ files' = side.files
                        /\ dirs' = dirs \cup {fsoutdir, surfacesdir}
                        /\ io' = Append(side.io, Io("makedirs", surfacesdir))
                   ELSE /\ tx' = [frame EXCEPT !.pc = "raised",
                                       !.textures = textures,
                                       !.error = [type |-> "OSError",
                                                  detail |-> "makedirs"]]
                        /\ files' = side.files
                        /\ io' = Append(side.io, Io("makedirs", surfacesdir))
                        /\ UNCHANGED dirs
    /\ UNCHANGED environ
    /\ UNCHANGED othersOfTex

\* Lines 279-314: one texture file.  resampleOk is whether mri_surf2surf
\* returns (it raises otherwise); array is what nibabel.load would return.
TexIterate ==
    /\ tx.pc = "loop"
    /\ tx.k < Len(tx.textures)
    /\ \E resampleOk \in BOOLEAN, array \in Arrays :
        LET texturefile == tx.textures[tx.k + 1]
            basename == Last(tx.regex)
            surfacesdir == Join(Join(tx.fsdir, "textures"), basename)
            sid == SidOf(texturefile, tx.fsdir)
            hemi == HemiOf(basename)
            resampled_texturefile == Resampled(surfacesdir, sid, basename)
            ran == Append(io, Io("mri_surf2surf " \o hemi, resampled_texturefile))
            raised(e) == [tx EXCEPT !.pc = "raised", !.error = e]
        IN  IF ~resampleOk
            THEN /\ tx' = raised([type |-> "FreeSurferRuntimeError",
                                  detail |-> "mri_surf2surf"])
                 /\ io' = ran
                 /\ UNCHANGED files
            ELSE /\ files' = files \cup {resampled_texturefile}
                 /\ IF ~Bound("nibabel")
                    THEN /\ tx' = raised(Raise("nibabel", "load"))
                         /\ io' = ran
                    ELSE /\ io' = Append(ran, Io("load", resampled_texturefile))
                         /\ tx' =
                              IF Len(array.shape) # 3
                              THEN raised(Raise("ValueError", "dimension"))
                              ELSE IF array.shape[2] # 1 \/ array.shape[3] # 1
                              THEN raised(Raise("ValueError", "shape"))
                              ELSE IF HasKey(tx.textures_map, sid)
                              THEN raised(Raise("ValueError", "duplicate"))
                              ELSE [tx EXCEPT
                                      !.k = @ + 1,
                                      !.textures_map = SetItem(@, sid, array.data)]
    /\ UNCHANGED <<environ, dirs, pre>>
    /\ UNCHANGED othersOfTex

\* Lines 316-337: the removal of the resampled textures, the outputs and the
\* return.  What the output files hold is not part of the state.
TexFinish ==
    /\ tx.pc = "loop"
    /\ tx.k = Len(tx.textures)
    /\ LET basename == Last(tx.regex)
           fsoutdir == Join(tx.fsdir, "textures")
           surfacesdir == Join(fsoutdir, basename)
           csvfile == Join(fsoutdir, basename \o ".csv")
           npzfile == Join(fsoutdir, basename \o ".npz")
           csvs == IF tx.save_mode \in {"csv", "all"} THEN <<csvfile>> ELSE <<>>
           npzs == IF tx.save_mode \in {"numpy", "all"} THEN <<npzfile>> ELSE <<>>
           textures_files == csvs \o npzs
           kept == IF tx.keep_individual_textures THEN files
                   ELSE {f \in files : ~IsPrefix(surfacesdir, f)}
           log == IF tx.keep_individual_textures THEN io
                  ELSE Append(io, Io("rmtree", surfacesdir))
       IN  IF ~tx.keep_individual_textures /\ ~Bound("shutil")
           THEN /\ tx' = [tx EXCEPT !.pc = "raised",
                                    !.error = Raise("shutil", "rmtree")]
                /\ UNCHANGED <<dirs, files, io>>
           ELSE /\ dirs' = IF tx.keep_individual_textures THEN dirs
                           ELSE {d \in dirs : ~IsPrefix(surfacesdir, d)}
                /\ files' = kept \cup {textures_files[j] : j \in 1..Len(textures_files)}
                /\ io' = log \o [j \in 1..Len(textures_files) |->
                                    Io("write", textures_files[j])]
                /\ tx' = [tx EXCEPT !.pc = "returned", !.ret = textures_files]
    /\ UNCHANGED <<environ, pre>>
    /\ UNCHANGED othersOfTex


(***************************************************************************)
(* Population Summary.                                                     *)
(*                                                                         *)
(* A file name is the sequence of its tokens: words, and the separators    *)
(* "_" and ".".  A CSV cell is the sequence of its characters.  A table is *)
(* its header (the column names) and its rows (one cell per column).       *)
(***************************************************************************)
ASEG == <<"aseg", "_", "stats", "_", "volume", ".", "csv">>

ASEG_OLD == <<"aseg", "_", "old", "_", "volume", ".", "csv">>

LH_AREA == <<"aparc", "_", "stats", "_", "lh", "_", "area", ".", "csv">>

LH_AREA_OTHER == <<"aparc", "_", "other", "_", "lh", "_", "area", ".", "csv">>

RH_AREA == <<"aparc", "_", "stats", "_", "rh", "_", "area", ".", "csv">>

NOTES == <<"notes", ".", "csv">>

README == <<"README", ".", "txt">>

StatsDirFiles == {ASEG, ASEG_OLD, LH_AREA, LH_AREA_OTHER, RH_AREA, NOTES, README}

\* What the files of fsdir/stats hold.
TableOf(name) ==
    CASE name = ASEG ->
           [header |-> <<"Measure:volume", "Left-Hippocampus">>,
            rows |-> << <<(<<"A">>), <<"3", "0", "0", "0">>>>,
                        <<(<<"B">>), <<"3", "2", "0", "0">>>> >>]
      [] name = ASEG_OLD ->
           [header |-> <<"Measure:volume", "Left-Hippocampus">>,
            rows |-> << >>]
      [] name = LH_AREA ->
           [header |-> <<"lh.aparc.area", "bankssts", "cuneus">>,
            rows |-> << <<(<<"A">>), <<"7">>, <<"1", "5">>>>,
                        <<(<<"B">>), <<"9">>, <<"1", "6">>>>,
                        <<(<<"A">>), <<"8">>, <<"1", "4">>>> >>]
      [] name = LH_AREA_OTHER ->
           [header |-> <<"lh.aparc.area", "bankssts">>,
            rows |-> << <<(<<"B">>), <<"2">>>> >>]
      [] name = RH_AREA ->
           [header |-> <<"rh.aparc.area", "insula">>,
            rows |-> << <<(<<"B">>), <<"4">>>>,
                        <<(<<"A">>), <<"0", "6">>>> >>]
      [] OTHER ->
           [header |-> <<"note">>, rows |-> << >>]

\* The subject identifiers a caller asks for; {} is None.
Sids == {{}, {<<"A">>}, {<<"B">>}, {<<"C">>}}

\* glob.glob(os.path.join(fsdir, "stats", "*.csv")), as a set.
GlobCsv(names) ==
    {n \in names : Len(n) >= 2 /\ n[Len(n)] = "csv" /\ n[Len(n) - 1] = "."
                   /\ n[1] # "."}

\* The words of a token sequence, joined.
RECURSIVE Word(_)
Word(tokens) == IF tokens = <<>> THEN "" ELSE Head(tokens) \o Word(Tail(tokens))

\* str.split(sep) on a token sequence: the words between the separators.
RECURSIVE SplitFrom(_, _, _)
SplitFrom(tokens, sep, cur) ==
    IF tokens = <<>> THEN <<Word(cur)>>
    ELSE IF Head(tokens) = sep
         THEN <<Word(cur)>> \o SplitFrom(Tail(tokens), sep, <<>>)
         ELSE SplitFrom(Tail(tokens), sep, Append(cur, Head(tokens)))

Split(tokens, sep) == SplitFrom(tokens, sep, <<>>)

\* os.path.basename(fpath).split(".")[0], as tokens.
RECURSIVE UpToDot(_)
UpToDot(tokens) ==
    IF tokens = <<>> \/ Head(tokens) = "." THEN <<>>
    ELSE <<Head(tokens)>> \o UpToDot(Tail(tokens))

\* basename.startswith(word), for a word that is a whole token.
StartsWith(tokens, word) == tokens # <<>> /\ Head(tokens) = word

Digits == <<"0", "1", "2", "3", "4", "5", "6", "7", "8", "9">>

DigitValue(c) == (CHOOSE d \in 1..Len(Digits) : Digits[d] = c) - 1

IsDigit(c) == \E d \in 1..Len(Digits) : Digits[d] = c

\* float(value) accepts the cell (here: a decimal integer literal).
IsFloat(cell) == cell # <<>> /\ \A j \in 1..Len(cell) : IsDigit(cell[j])

\* float(value).
RECURSIVE Float(_)
Float(cell) ==
    IF cell = <<>> THEN 0
    ELSE Float(SubSeq(cell, 1, Len(cell) - 1)) * Len(Digits) + DigitValue(Last(cell))

RECURSIVE Sum(_)
Sum(values) == IF values = <<>> THEN 0 ELSE Head(values) + Sum(Tail(values))

RECURSIVE SumSq(_)
SumSq(values) ==
    IF values = <<>> THEN 0 ELSE Head(values) * Head(values) + SumSq(Tail(values))

RECURSIVE GCD(_, _)
GCD(a, b) == IF b = 0 THEN a ELSE GCD(b, a % b)

\* Not-a-number: what numpy returns for the mean of no value.
NaN == [num |-> 0, den |-> 0]

\* The fraction num/den, reduced.
Rat(num, den) ==
    IF den = 0 THEN NaN
    ELSE LET g == GCD(IF num < 0 THEN -num ELSE num, den)
         IN  IF g = 0 THEN [num |-> 0, den |-> 1]
             ELSE [num |-> num \div g, den |-> den \div g]

\* numpy.mean(values): the exact quotient (numpy rounds it to a double).
Mean(values) == Rat(Sum(values), Len(values))

\* numpy.std(values), the population deviation, given by its square.
Std(values) ==
    [square |-> Rat(Len(values) * SumSq(values) - Sum(values) * Sum(values),
                    Len(values) * Len(values))]

RawList(values) == [kind |-> "list", values |-> values]

\* {"values": values, "m": mean, "s": std}
Struct(values) ==
    [kind |-> "struct", values |-> values, m |-> Mean(values), s |-> Std(values)]

\* "if sid is not None: if subject != sid: continue"
SkipsRowNever(sid, subject) == FALSE

SkipsRow(sid, subject) == sid # {} /\ subject \notin sid

\* Lines 67-69 for one row that passed the filter: every cell is appended to
\* the list of its column.  A column whose entry is no list cannot be
\* appended to (AttributeError), a cell float() rejects is a ValueError.
AppendRow(slot, keys, line) ==
    IF \E key \in keys : key \in DOMAIN slot /\ slot[key].kind # "list"
    THEN [error |-> [type |-> "AttributeError", detail |-> "append"], slot |-> slot]
    ELSE IF \E key \in keys : ~IsFloat(line[key])
    THEN [error |-> Raise("ValueError", "float"), slot |-> slot]
    ELSE [error |-> NoError,
          slot |-> [key \in DOMAIN slot \cup keys |->
                      IF key \notin keys THEN slot[key]
                      ELSE IF key \in DOMAIN slot
                           THEN RawList(Append(slot[key].values, Float(line[key])))
                           ELSE RawList(<<Float(line[key])>>)]]

\* The variant that makes the list of every column before the row is filtered.
RowStepKeysFirst(slot, keys, line, subject, sid) ==
    LET made == [key \in DOMAIN slot \cup keys |->
                   IF key \in DOMAIN slot THEN slot[key] ELSE RawList(<<>>)]
    IN  IF SkipsRow(sid, subject) THEN [error |-> NoError, slot |-> made]
        ELSE AppendRow(made, keys, line)

\* Lines 64-69 for one row: the filter, then the cells.
RowStep(slot, keys, line, subject, sid) ==
    IF SkipsRow(sid, subject) THEN [error |-> NoError, slot |-> slot]
    ELSE AppendRow(slot, keys, line)

\* Lines 62-69: the rows of the table from row r on.
RECURSIVE Accumulate(_, _, _, _, _)
Accumulate(slot, table, subject_header, sid, r) ==
    IF r > Len(table.rows) THEN [error |-> NoError, slot |-> slot]
    ELSE LET cols == 1..Len(table.header)
             names == {table.header[c] : c \in cols}
             line == [name \in names |->
                        table.rows[r][CHOOSE c \in cols : table.header[c] = name]]
         IN  IF subject_header \notin names
             THEN [error |-> [type |-> "KeyError", detail |-> subject_header],
                   slot |-> slot]
             ELSE LET row == RowStep(slot, names \ {subject_header}, line,
                                     line[subject_header], sid)
                  IN  IF row.error # NoError THEN row
                      ELSE Accumulate(row.slot, table, subject_header, sid, r + 1)

\* Lines 70-77: every entry of the slot is replaced by its structure.
\* numpy.mean of an entry that is a structure already is a TypeError.
Summarize(slot) ==
    IF \E region \in DOMAIN slot : slot[region].kind # "list"
    THEN [error |-> [type |-> "TypeError", detail |-> "mean"], slot |-> slot]
    ELSE [error |-> NoError,
          slot |-> [region \in DOMAIN slot |-> Struct(slot[region].values)]]

\* Lines 47-56: the hemisphere, the measure name and the subject column of
\* a file, from its name; skip is the "else: continue".
Classify(fpath) ==
    LET basename == UpToDot(fpath)
        parts == Split(basename, "_")
        none == [skip |-> FALSE, error |-> NoError, hemi |-> "", sname |-> "",
                 subject_header |-> ""]
    IN  IF StartsWith(basename, "aseg")
        THEN IF Len(parts) # 3
             THEN [none EXCEPT !.error = Raise("ValueError", "unpack")]
             ELSE [none EXCEPT !.hemi = "aseg", !.sname = parts[3],
                               !.subject_header = "Measure:volume"]
        ELSE IF StartsWith(basename, "aparc")
        THEN IF Len(parts) # 4
             THEN [none EXCEPT !.error = Raise("ValueError", "unpack")]
             ELSE [none EXCEPT !.hemi = parts[3], !.sname = parts[4],
                               !.subject_header =
                                   parts[3] \o "." \o parts[1] \o "." \o parts[4]]
        ELSE [none EXCEPT !.skip = TRUE]

\* Lines 47-77: one file of the glob.
ProcessTable(popstats, fpath, sid) ==
    LET c == Classify(fpath)
    IN  IF c.skip THEN [error |-> NoError, popstats |-> popstats]
        ELSE IF c.error # NoError THEN [error |-> c.error, popstats |-> popstats]
        ELSE IF c.hemi \notin DOMAIN popstats
        THEN [error |-> [type |-> "KeyError", detail |-> c.hemi],
              popstats |-> popstats]
        ELSE LET slot == IF c.sname \in DOMAIN popstats[c.hemi]
                         THEN popstats[c.hemi][c.sname] ELSE EmptyDict
                 rows == Accumulate(slot, TableOf(fpath), c.subject_header, sid, 1)
                 sums == Summarize(rows.slot)
                 put(s) == [h \in DOMAIN popstats |->
                              IF h # c.hemi THEN popstats[h]
                              ELSE [n \in DOMAIN popstats[h] \cup {c.sname} |->
                                      IF n = c.sname THEN s ELSE popstats[h][n]]]
             IN  IF rows.error # NoError
                 THEN [error |-> rows.error, popstats |-> put(rows.slot)]
                 ELSE IF sums.error # NoError
                 THEN [error |-> sums.error, popstats |-> put(rows.slot)]
                 ELSE [error |-> NoError, popstats |-> put(sums.slot)]

\* Lines 39-45.
PopCall ==
    /\ ps.pc = "idle"
    /\ \E sid \in Sids, stats \in Perms(GlobCsv(statsdir)) :
        ps' = [IdlePopFrame EXCEPT
                 !.pc = "loop", !.sid = sid, !.stats = stats,
                 !.popstats = [h \in {"lh", "rh", "aseg"} |-> EmptyDict]]
    /\ UNCHANGED statsdir
    /\ UNCHANGED othersOfPop

\* Lines 46-77: one pass through "for fpath in stats".
PopTable ==
    /\ ps.pc = "loop"
    /\ ps.k < Len(ps.stats)
    /\ LET done == ProcessTable(ps.popstats, ps.stats[ps.k + 1], ps.sid)
       IN  ps' = IF done.error # NoError
                 THEN [ps EXCEPT !.pc = "raised", !.error = done.error,
                                 !.k = @ + 1, !.popstats = done.popstats]
                 ELSE [ps EXCEPT !.k = @ + 1, !.popstats = done.popstats]
    /\ UNCHANGED statsdir
    /\ UNCHANGED othersOfPop

\* Line 79.
PopReturn ==
    /\ ps.pc = "loop"
    /\ ps.k = Len(ps.stats)
    /\ ps' = [ps EXCEPT !.pc = "returned"]
    /\ UNCHANGED statsdir
    /\ UNCHANGED othersOfPop


(***************************************************************************)
(* Environment Loader.                                                     *)
(*                                                                         *)
(* Text is a sequence of characters.  The child process is bash sourcing   *)
(* the script and then running printenv: what the model takes from it is   *)
(* its exit status and the environment printenv lists, in printenv's order.*)
(***************************************************************************)
LF == "\n"

WordChars ==
    {"A", "B", "D", "P", "W", "e", "x", "p", "o", "r", "t", "s", "w", "i",
     "1", "2", "_"}

WhiteSpace == {" ", LF}

\* The names and the values of the variables of the child's environment.
EnvNames ==
    {<<"A">>, <<"B">>, <<"P", "W", "D">>, <<"e", "x", "p", "o", "r", "t", "s">>}

EnvValues ==
    {<<"1">>, <<"t", "w", "o">>, <<>>, <<"i", "t", "'", "s">>, <<"x", " ", "1">>,
     <<"x", LF, "A", "=", "2">>}

\* /usr/bin/printenv: one NAME=VALUE line per variable.
RECURSIVE Printenv(_)
Printenv(listed) ==
    IF listed = <<>> THEN <<>>
    ELSE Head(listed)[1] \o <<"=">> \o Head(listed)[2] \o <<LF>>
         \o Printenv(Tail(listed))

\* text.split(sep) for a one-character separator.
RECURSIVE SplitChars(_, _, _)
SplitChars(text, sep, cur) ==
    IF text = <<>> THEN <<cur>>
    ELSE IF Head(text) = sep
         THEN <<cur>> \o SplitChars(Tail(text), sep, <<>>)
         ELSE SplitChars(Tail(text), sep, Append(cur, Head(text)))

\* text.replace(old, ""): every occurrence of old is removed, from the left.
RECURSIVE Remove(_, _)
Remove(text, old) ==
    IF text = <<>> THEN <<>>
    ELSE IF IsPrefix(old, text)
         THEN Remove(SubSeq(text, Len(old) + 1, Len(text)), old)
         ELSE <<Head(text)>> \o Remove(Tail(text), old)

\* Lines 50-52.
Normalize(line) ==
    IF IsPrefix(<<"e", "x", "p", "o", "r", "t">>, line)
    THEN Remove(Remove(line, <<"e", "x", "p", "o", "r", "t", " ">>), <<"'">>)
    ELSE line

\* The length of the longest prefix of word characters.
RECURSIVE WordPrefix(_)
WordPrefix(text) ==
    IF text = <<>> \/ Head(text) \notin WordChars THEN 0
    ELSE 1 + WordPrefix(Tail(text))

\* re.match(r"^(\w+)=(\S*)$", line): the groups of the match, if any.
Match(line) ==
    LET n == WordPrefix(line)
        value == SubSeq(line, n + 2, Len(line))
    IN  IF /\ n >= 1
           /\ Len(line) >= n + 1
           /\ line[n + 1] = "="
           /\ \A j \in 1..Len(value) : value[j] \notin WhiteSpace
        THEN {<<SubSeq(line, 1, n), value>>}
        ELSE {}

\* "if name != "PWD""
KeepsAll(name) == TRUE

Keeps(name) == name # <<"P", "W", "D">>

\* Lines 37-49: the child process, its exit status and the lines of its output.
EnvRun ==
    /\ ev.pc = "idle"
    /\ \E returncode \in ExitCodes :
        ev' = IF returncode # 0
              THEN [ev EXCEPT !.pc = "raised",
                              !.error = [type |-> "Exception", detail |-> "sh_file"]]
              ELSE [ev EXCEPT !.pc = "parse",
                              !.lines = SplitChars(Printenv(child), LF, <<>>)]
    /\ UNCHANGED child
    /\ UNCHANGED othersOfEnv

\* Lines 49-57: one line of the output.
EnvParseLine ==
    /\ ev.pc = "parse"
    /\ ev.k < Len(ev.lines)
    /\ LET line == Normalize(ev.lines[ev.k + 1])
           match == Match(line)
       IN  ev' = [ev EXCEPT
                    !.k = @ + 1,
                    !.environment =
                        IF match # {} /\ Keeps((CHOOSE m \in match : TRUE)[1])
                        THEN SetItem(@, (CHOOSE m \in match : TRUE)[1],
                                        (CHOOSE m \in match : TRUE)[2])
                        ELSE @]
    /\ UNCHANGED child
    /\ UNCHANGED othersOfEnv

\* Line 59.
EnvReturn ==
    /\ ev.pc = "parse"
    /\ ev.k = Len(ev.lines)
    /\ ev' = [ev EXCEPT !.pc = "returned"]
    /\ UNCHANGED child
    /\ UNCHANGED othersOfEnv


(***************************************************************************)
(* The four specifications.                                                *)
(***************************************************************************)
StatsIdle == st = IdleFrame /\ calls = <<>>

TexIdle == tx = IdleTexFrame /\ io = <<>>

PopIdle == statsdir = {} /\ ps = IdlePopFrame

EnvIdle == child = <<>> /\ ev = IdleEnvFrame

FsIdle ==
    /\ environ = {}
    /\ dirs = {}
    /\ files = {}
    /\ pre = [environ |-> environ, dirs |-> dirs, files |-> files]

StatsInit ==
    /\ environ \in {{}, {<<"SUBJECTS_DIR", <<"old">>>>}, {<<"SUBJECTS_DIR", <<"fs">>>>}}
    /\ \E withStats \in SUBSET SubjectNames, outStats \in BOOLEAN :
        dirs = {<<"fs">>, <<"out">>}
               \cup {<<"fs", s>> : s \in SubjectNames}
               \cup {<<"fs", s, "stats">> : s \in withStats}
               \cup (IF outStats THEN {<<"out", "stats">>} ELSE {})
    /\ files \in {{}, {<<"out", "stats", "aseg_stats_volume.csv">>}, {<<"fs", "stats">>}}
    /\ pre = [environ |-> environ, dirs |-> dirs, files |-> files]
    /\ StatsIdle
    /\ TexIdle
    /\ PopIdle
    /\ EnvIdle

StatsNext ==
    \/ AparcCall
    \/ AparcInvoke
    \/ AparcReturn
    \/ AsegCall
    \/ AsegInvoke

SpecStats == StatsInit /\ [][StatsNext]_vars

TexInit ==
    /\ environ = {}
    /\ \E made \in BOOLEAN :
        dirs = {<<"fs">>, <<"out">>, <<"fs", "s1">>, <<"fs", "s2">>,
                <<"fs", "s1", "surf">>, <<"fs", "s1", "label">>,
                <<"fs", "s2", "surf">>}
               \cup (IF made THEN {<<"fs", "textures">>, <<"fs", "textures", "lh.a">>}
                     ELSE {})
    /\ files \in SUBSET TexFiles
    /\ pre = [environ |-> environ, dirs |-> dirs, files |-> files]
    /\ StatsIdle
    /\ TexIdle
    /\ PopIdle
    /\ EnvIdle

TexNext ==
    \/ TexCall
    \/ TexIterate
    \/ TexFinish

SpecTex == TexInit /\ [][TexNext]_vars

PopInit ==
    /\ statsdir \in {d \in SUBSET StatsDirFiles : Cardinality(d) <= MaxFiles}
    /\ ps = IdlePopFrame
    /\ FsIdle
    /\ StatsIdle
    /\ TexIdle
    /\ EnvIdle

PopNext ==
    \/ PopCall
    \/ PopTable
    \/ PopReturn

SpecPop == PopInit /\ [][PopNext]_vars

\* The environments of at most MaxVars variables, each listed once.
Children ==
    UNION {{c \in [1..n -> EnvNames \X EnvValues] :
               \A i, j \in 1..n : c[i][1] = c[j][1] => i = j} : n \in 0..MaxVars}


EnvInit ==
    /\ child \in Children
    /\ ev = IdleEnvFrame
    /\ FsIdle
    /\ StatsIdle
    /\ TexIdle
    /\ PopIdle

EnvNext ==
    \/ EnvRun
    \/ EnvParseLine
    \/ EnvReturn

SpecEnv == EnvInit /\ [][EnvNext]_vars

(***************************************************************************)
(* Claims about the Stats Table Generators, checked under SpecStats.       *)
(***************************************************************************)
StatsFinished == st.pc \in {"returned", "raised"}

\* C1: after every call, whether it returned or raised, SUBJECTS_DIR has its
\* pre-call value, and is unset if it was unset before the call.
C1_SubjectsDirRestored == StatsFinished => environ = pre.environ

\* The call was aborted by the exit status of an invocation.
AbortedByTool ==
    /\ st.pc = "raised"
    /\ calls # <<>>
    /\ Last(calls).exitcode # 0

\* C2: the first invocation that exits non-zero aborts the call with the
\* tool execution error (FreeSurferRuntimeError, naming the tool), no later
\* invocation is made, nothing is returned, and the files of the invocations
\* that succeeded stay on disk.
C2_ToolFailureAborts ==
    AbortedByTool =>
        /\ st.error.type = "FreeSurferRuntimeError"
        /\ st.error.detail = Last(calls).cmd.tool
        /\ \A k \in 1..(Len(calls) - 1) : calls[k].exitcode = 0
        /\ st.ret = <<>>
        /\ \A k \in 1..(Len(calls) - 1) : calls[k].cmd.tablefile \in files
        /\ pre.files \subseteq files

\* C3: when every invocation exits with 0, aparcstats2table runs the tool 16
\* times, hemisphere-major and measure-minor, and returns the 16 table files
\* in the order of the invocations.
C3_SixteenInOrder ==
    (st.pc = "returned" /\ st.kind = "aparc") =>
        /\ Len(calls) = 16
        /\ Len(st.ret) = 16
        /\ \A k \in 1..Len(calls) :
            /\ calls[k].cmd.tool = "aparcstats2table"
            /\ calls[k].exitcode = 0
            /\ calls[k].cmd.hemi = (IF k <= 8 THEN "lh" ELSE "rh")
            /\ calls[k].cmd.meas =
                   <<"area", "volume", "thickness", "thicknessstd", "meancurv",
                     "gauscurv", "foldind", "curvind">>[((k - 1) % 8) + 1]
            /\ calls[k].cmd.subjects = st.subjects
            /\ k <= Len(st.ret) /\ st.ret[k] = calls[k].cmd.tablefile
        /\ \A j, k \in 1..Len(calls) :
            calls[j].cmd.tablefile = calls[k].cmd.tablefile => j = k

C3_Witness == st.pc = "returned" /\ st.kind = "aparc" /\ Len(st.subjects) = 2

\* C4: a call whose subjects_dir or out_dir is not a directory raises
\* ValueError (the InvalidArgument of the specification) with SUBJECTS_DIR
\* and the filesystem untouched and no tool invoked.
C4_BadDirectoryRejectedFirst ==
    (st.pc # "idle" /\ (st.fsdir \notin pre.dirs \/ st.outdir \notin pre.dirs)) =>
        /\ st.pc = "raised"
        /\ st.error.type = "ValueError"
        /\ environ = pre.environ
        /\ dirs = pre.dirs
        /\ files = pre.files
        /\ calls = <<>>

C4_Witness ==
    /\ st.pc = "raised"
    /\ st.fsdir \in pre.dirs
    /\ st.outdir \notin pre.dirs
    /\ st.kind = "aseg"

(***************************************************************************)
(* Claims about the Texture Aggregator, checked under SpecTex.             *)
(***************************************************************************)
TexFinished == tx.pc \in {"returned", "raised"}

\* C5: a call whose save_mode is not "numpy", "csv" or "all" raises ValueError
\* (the InvalidArgument of the specification) before any filesystem access:
\* no glob, no side-file, no directory, no resampling, no output.
C5_BadSaveModeBeforeIo ==
    (tx.pc # "idle" /\ tx.save_mode \notin {"numpy", "csv", "all"}) =>
        /\ tx.pc = "raised"
        /\ tx.error.type = "ValueError"
        /\ io = <<>>
        /\ files = pre.files
        /\ dirs = pre.dirs

C5_Witness ==
    /\ tx.pc = "raised"
    /\ tx.save_mode = "xml"
    /\ tx.outdir # {}
    /\ Glob(tx.fsdir, tx.regex) # {}

\* Two files of the match set derive the same subject identifier.
RepeatsSid(textures, fsdir) ==
    \E i, j \in 1..Len(textures) :
        i # j /\ SidOf(textures[i], fsdir) = SidOf(textures[j], fsdir)

WroteOutput == \E j \in 1..Len(io) : io[j].op = "write" /\ io[j].path \in
                   {Join(Join(tx.fsdir, "textures"), Last(tx.regex) \o ".csv"),
                    Join(Join(tx.fsdir, "textures"), Last(tx.regex) \o ".npz")}

\* C6: a run whose match set derives a subject identifier twice aborts with
\* the duplicate-subject error, and writes no CSV or numpy output.
C6_DuplicateSubjectError ==
    (TexFinished /\ tx.save_mode \in {"numpy", "csv", "all"}
                 /\ RepeatsSid(tx.textures, tx.fsdir)) =>
        /\ tx.pc = "raised"
        /\ tx.error = [type |-> "ValueError", detail |-> "duplicate"]
        /\ ~WroteOutput

(***************************************************************************)
(* Claims about Population Summary, checked under SpecPop.                 *)
(*                                                                         *)
(* The claims are stated on the files themselves: the slot each table      *)
(* file feeds, its region columns and its rows are read off StatsDirFiles  *)
(* here, not taken from the model of the code.                             *)
(***************************************************************************)
IsTable(name) == name \in {ASEG, ASEG_OLD, LH_AREA, LH_AREA_OTHER, RH_AREA}

SlotOf(name) ==
    CASE name \in {ASEG, ASEG_OLD} -> [hemi |-> "aseg", sname |-> "volume"]
      [] name \in {LH_AREA, LH_AREA_OTHER} -> [hemi |-> "lh", sname |-> "area"]
      [] OTHER -> [hemi |-> "rh", sname |-> "area"]

\* The region columns of a table: every column but the first, the subjects'.
RegionsOf(name) ==
    {TableOf(name).header[c] : c \in 2..Len(TableOf(name).header)}

\* The rows of a table that the call keeps: all of them without sid, those
\* of the subject sid otherwise.
KeptRows(name, sid) ==
    LET Kept(row) == sid = {} \/ row[1] \in sid
    IN  SelectSeq(TableOf(name).rows, Kept)

\* The values of a region in the kept rows, in row order.
KeptValues(name, region, sid) ==
    LET c == CHOOSE c \in 1..Len(TableOf(name).header) :
                 TableOf(name).header[c] = region
        kept == KeptRows(name, sid)
    IN  [r \in 1..Len(kept) |-> Float(kept[r][c])]

\* The same, over the first n files of the glob that feed a slot.
RECURSIVE SlotValues(_, _, _, _, _)
SlotValues(stats, n, slot, region, sid) ==
    IF n = 0 THEN <<>>
    ELSE SlotValues(stats, n - 1, slot, region, sid)
         \o (IF /\ IsTable(stats[n])
                /\ SlotOf(stats[n]) = slot
                /\ region \in RegionsOf(stats[n])
             THEN KeptValues(stats[n], region, sid)
             ELSE <<>>)

\* The slot of the result, the empty mapping when it has not been made.
SlotNow(slot) ==
    IF slot.hemi \in DOMAIN ps.popstats /\ slot.sname \in DOMAIN ps.popstats[slot.hemi]
    THEN ps.popstats[slot.hemi][slot.sname]
    ELSE EmptyDict

SlotMade(slot) ==
    slot.hemi \in DOMAIN ps.popstats /\ slot.sname \in DOMAIN ps.popstats[slot.hemi]

\* Two of the first n files of the glob feed the same slot.
SlotShared(n) ==
    \E i, j \in 1..n :
        /\ i # j
        /\ IsTable(ps.stats[i])
        /\ IsTable(ps.stats[j])
        /\ SlotOf(ps.stats[i]) = SlotOf(ps.stats[j])

AllSlots == {SlotOf(name) : name \in {n \in StatsDirFiles : IsTable(n)}}

\* C7 (as claimed): if sid is given and matches no row of a table, the
\* result holds, for each region of the table, an entry with no value and a
\* not-a-number mean and deviation, and the call raises no error.
C7_NoMatchGivesEmptyEntries ==
    \A k \in 1..Len(ps.stats) :
        (IsTable(ps.stats[k]) /\ ps.sid # {} /\ KeptRows(ps.stats[k], ps.sid) = <<>>) =>
            /\ ps.pc # "raised"
            /\ ps.k >= k =>
                 \A region \in RegionsOf(ps.stats[k]) :
                     /\ region \in DOMAIN SlotNow(SlotOf(ps.stats[k]))
                     /\ SlotNow(SlotOf(ps.stats[k]))[region].values = <<>>
                     /\ SlotNow(SlotOf(ps.stats[k]))[region].m = NaN
                     /\ SlotNow(SlotOf(ps.stats[k]))[region].s = [square |-> NaN]

\* C7 (amended): a table in which no row matches sid adds no entry: while the
\* tables that fed a slot had no matching row, the slot is made and is the
\* empty mapping.  No entry of the result has an empty list of values or a
\* not-a-number mean or deviation, and an error is raised only when two
\* tables feed one slot.
C7_NoMatchAddsNoEntry ==
    /\ \A slot \in AllSlots :
        LET fed == {k \in 1..ps.k : IsTable(ps.stats[k]) /\ SlotOf(ps.stats[k]) = slot}
        IN  (/\ ps.sid # {}
             /\ fed # {}
             /\ \A k \in fed : KeptRows(ps.stats[k], ps.sid) = <<>>) =>
                /\ SlotMade(slot)
                /\ SlotNow(slot) = EmptyDict
    /\ \A slot \in AllSlots : \A region \in DOMAIN SlotNow(slot) :
        LET entry == SlotNow(slot)[region]
        IN  /\ entry.values # <<>>
            /\ entry.kind = "struct" => entry.m # NaN /\ entry.s # [square |-> NaN]
    /\ ps.pc = "raised" => SlotShared(ps.k)

C7_Witness ==
    /\ ps.pc = "returned"
    /\ ps.sid = {<<"C">>}
    /\ \E k \in 1..Len(ps.stats) : ps.stats[k] = LH_AREA
    /\ \E k \in 1..Len(ps.stats) : ps.stats[k] = ASEG

\* C8: at return, the values of every region of the result are the values of
\* the kept rows, in row order, of the table that feeds its slot (of the
\* tables, in glob order, when several do): the rows of sid and of no other
\* subject when sid is given, every row otherwise; and every region with a
\* kept row has its entry, with the mean of its values.
C8_ValuesAreTheKeptRows ==
    ps.pc = "returned" =>
        /\ \A slot \in AllSlots : \A region \in DOMAIN SlotNow(slot) :
            /\ SlotNow(slot)[region].values =
                   SlotValues(ps.stats, Len(ps.stats), slot, region, ps.sid)
            /\ SlotNow(slot)[region].m.num * Len(SlotNow(slot)[region].values)
                   = Sum(SlotNow(slot)[region].values) * SlotNow(slot)[region].m.den
        /\ \A k \in 1..Len(ps.stats) :
            IsTable(ps.stats[k]) =>
                \A region \in RegionsOf(ps.stats[k]) :
                    KeptValues(ps.stats[k], region, ps.sid) # <<>> =>
                        region \in DOMAIN SlotNow(SlotOf(ps.stats[k]))
        /\ (ps.sid = {} /\ \E k \in 1..Len(ps.stats) : ps.stats[k] = ASEG) =>
            /\ SlotNow(SlotOf(ASEG))["Left-Hippocampus"].values = <<3000, 3200>>
            /\ SlotNow(SlotOf(ASEG))["Left-Hippocampus"].m = [num |-> 3100, den |-> 1]
        /\ (ps.sid = {<<"A">>} /\ \E k \in 1..Len(ps.stats) : ps.stats[k] = ASEG) =>
            SlotNow(SlotOf(ASEG))["Left-Hippocampus"].values = <<3000>>

C8_Witness ==
    /\ ps.pc = "returned"
    /\ ps.sid = {<<"A">>}
    /\ \E k \in 1..Len(ps.stats) : ps.stats[k] = LH_AREA
    /\ SlotNow(SlotOf(LH_AREA))["bankssts"].values = <<7, 8>>
    /\ \E k \in 1..Len(ps.stats) : ps.stats[k] = ASEG

\* C10: whatever CSV files fsdir/stats holds, several for one slot included,
\* the call returns, and every entry of the result is a structure built once.
C10_SharedSlotBuiltOnce ==
    ps.pc \in {"returned", "raised"} =>
        /\ ps.pc = "returned"
        /\ \A slot \in AllSlots : \A region \in DOMAIN SlotNow(slot) :
            SlotNow(slot)[region].kind = "struct"

(***************************************************************************)
(* Claims about the Environment Loader, checked under SpecEnv.             *)
(***************************************************************************)
PWD == <<"P", "W", "D">>

HasChar(text, c) == \E j \in 1..Len(text) : text[j] = c

\* C9 (as claimed): at return the result maps NAME to VALUE for every
\* variable of the sourced shell's environment whose value is free of white
\* space (PWD apart), and it has no PWD key.
C9_ExportedVariablesLoaded ==
    ev.pc = "returned" =>
        /\ \A i \in 1..Len(child) :
            (/\ child[i][1] # PWD
             /\ ~HasChar(child[i][2], " ")
             /\ ~HasChar(child[i][2], LF)) =>
                <<child[i][1], child[i][2]>> \in ev.environment
        /\ ~HasKey(ev.environment, PWD)

\* C9 (amended): the same, when no value of the environment holds a line
\* break, for every variable but those whose name begins with "export" and
\* whose value holds a single quote.
C9_ExportedVariablesLoadedUnquoted ==
    ev.pc = "returned" =>
        /\ (\A j \in 1..Len(child) : ~HasChar(child[j][2], LF)) =>
            \A i \in 1..Len(child) :
                (/\ child[i][1] # PWD
                 /\ ~HasChar(child[i][2], " ")
                 /\ ~(/\ IsPrefix(<<"e", "x", "p", "o", "r", "t">>, child[i][1])
                      /\ HasChar(child[i][2], "'"))) =>
                    <<child[i][1], child[i][2]>> \in ev.environment
        /\ ~HasKey(ev.environment, PWD)

C9_Witness ==
    /\ ev.pc = "returned"
    /\ <<(<<"A">>), <<"1">>>> \in ev.environment
    /\ <<(<<"B">>), <<"t", "w", "o">>>> \in ev.environment
    /\ \E i \in 1..Len(child) : child[i][1] = PWD

=============================================================================
